---- MODULE Spec2Model ----
(***************************************************************************)
(* pypodio2/encode.py: multipart/form-data encoding.                       *)
(*                                                                         *)
(* Text and bytes are sequences of one-character strings.  The non-ASCII   *)
(* code point U+00E9 is the element "u00E9"; its two UTF-8 bytes are the   *)
(* elements "xC3" and "xA9".  None is the tuple <<"None">> for optional    *)
(* text, -1 for an optional integer and 0 for an optional file object.     *)
(***************************************************************************)
EXTENDS Integers, Sequences, FiniteSets, TLC

\* ------------------------------------------------------------------------
\* Bounds of the model
\* ------------------------------------------------------------------------
MaxFields == 2        \* longest parameter list
MaxRead == 2          \* most bytes one read() of a source delivers
MaxResets == 1        \* reset() calls per behaviour
MaxText == 5          \* longest inline text of the collision scan
MaxData == 4          \* longest stream data of the collision scan

\* ------------------------------------------------------------------------
\* Values
\* ------------------------------------------------------------------------
None == <<"None">>
NoSize == -1
NoFile == 0
INone == -1
NoIter == [pc |-> "none"]

CR == "\r"
LF == "\n"
CRLF == <<CR, LF>>

Min(a, b) == IF a < b THEN a ELSE b

RECURSIVE Flatten(_)
Flatten(ss) == IF ss = <<>> THEN <<>> ELSE Head(ss) \o Flatten(Tail(ss))

\* s[-n:] of Python for n >= 1
LastN(s, n) == IF Len(s) <= n THEN s ELSE SubSeq(s, Len(s) - n + 1, Len(s))

\* str.encode("utf-8")
Utf8Char(c) == IF c = "u00E9" THEN <<"xC3", "xA9">> ELSE <<c>>

RECURSIVE Utf8(_)
Utf8(t) == IF t = <<>> THEN <<>> ELSE Utf8Char(Head(t)) \o Utf8(Tail(t))

\* urllib.parse.quote_plus, one character: unreserved characters are kept,
\* a space becomes "+", every other character becomes %XX
SafeChars == {"a", "b", "c", "d", "e", "f", "0", "1", "2", "5", "7", "9",
              "A", "B", "_", ".", "-", "~"}

PercentCode(c) ==
    CASE c = "+" -> <<"%", "2", "B">>
      [] c = "%" -> <<"%", "2", "5">>
      [] c = LF -> <<"%", "0", "A">>
      [] c = "u00E9" -> <<"%", "C", "3", "%", "A", "9">>
      [] OTHER -> <<"%", "3", "F">>

QuoteChar(c) ==
    IF c \in SafeChars THEN <<c>>
    ELSE IF c = " " THEN <<"+">>
    ELSE PercentCode(c)

RECURSIVE quote_plus(_)
quote_plus(s) ==
    IF s = <<>> THEN <<>> ELSE QuoteChar(Head(s)) \o quote_plus(Tail(s))

\* encode_and_quote(data) for text data
encode_and_quote(data) == quote_plus(data)

\* re.search(b"^" + re.escape(tok) + b"$", s, re.M): with re.M "^" matches at
\* the start of s and after every LF, "$" at the end of s and before every LF
Search(tok, s) ==
    \E k \in 1..(Len(s) - Len(tok) + 1) :
        /\ (k = 1 \/ s[k - 1] = LF)
        /\ SubSeq(s, k, k + Len(tok) - 1) = tok
        /\ (k + Len(tok) - 1 = Len(s) \/ s[k + Len(tok)] = LF)

\* ------------------------------------------------------------------------
\* Header text
\* ------------------------------------------------------------------------
DispositionPrefix ==
    <<"C", "o", "n", "t", "e", "n", "t", "-", "D", "i", "s", "p", "o", "s",
      "i", "t", "i", "o", "n", ":", " ", "f", "o", "r", "m", "-", "d", "a",
      "t", "a", ";", " ", "n", "a", "m", "e", "=", "\"">>
FilenamePrefix ==
    <<"\"", ";", " ", "f", "i", "l", "e", "n", "a", "m", "e", "=", "\"">>
ContentTypePrefix ==
    <<"C", "o", "n", "t", "e", "n", "t", "-", "T", "y", "p", "e", ":", " ">>
DefaultFiletype ==
    <<"t", "e", "x", "t", "/", "p", "l", "a", "i", "n", ";", " ", "c", "h",
      "a", "r", "s", "e", "t", "=", "u", "t", "f", "-", "8">>

\* MultipartParam.encode_hdr(boundary) of the parameter f
encode_hdr(f, b) ==
    LET disposition ==
            IF f.filename # None /\ f.filename # <<>>
            THEN DispositionPrefix \o f.name \o FilenamePrefix
                     \o f.filename \o <<"\"">>
            ELSE DispositionPrefix \o f.name \o <<"\"">>
        ctype == IF f.filetype # None /\ f.filetype # <<>>
                 THEN f.filetype ELSE DefaultFiletype
    IN  <<"-", "-">> \o encode_and_quote(b) \o CRLF
            \o disposition \o CRLF
            \o ContentTypePrefix \o ctype \o CRLF
            \o CRLF

\* get_size without the two bytes of the CRLF that ends the part
get_size_noCRLF(f, b) ==
    LET valuesize == IF f.filesize # NoSize THEN f.filesize
                     ELSE Len(Utf8(f.value))
    IN  Len(encode_hdr(f, b)) + valuesize

\* MultipartParam.get_size(boundary)
get_size(f, b) ==
    LET valuesize == IF f.filesize # NoSize THEN f.filesize
                     ELSE Len(Utf8(f.value))
    IN  Len(encode_hdr(f, b)) + 2 + valuesize

\* ------------------------------------------------------------------------
\* Construction
\* ------------------------------------------------------------------------
\* the filename escaping of MultipartParam.__init__ on ASCII text: a
\* backslash is doubled (unicode_escape), then a double quote gets a backslash
EscapeChar(c) ==
    IF c = "\\" THEN <<"\\", "\\">>
    ELSE IF c = "\"" THEN <<"\\", "\"">>
    ELSE <<c>>

RECURSIVE EscapeFilename(_)
EscapeFilename(t) ==
    IF t = <<>> THEN <<>> ELSE EscapeChar(Head(t)) \o EscapeFilename(Tail(t))

\* mimetypes.guess_type(filename)[0]: a name without a known extension
\* (every name of the model) has no guessed type
guess_type(filename) == None

\* MultipartParam.__init__ with the check for value and fileobj moved after
\* the probe of the size
MultipartParam_probeFirst(a, fs) ==
    LET both == a.value # None /\ a.fileobj # NoFile
        probe == a.fileobj # NoFile /\ a.filesize = NoSize
        fstat == probe /\ fs[a.fileobj].fileno
        size == IF probe THEN Len(fs[a.fileobj].data) ELSE a.filesize
        fs2 == IF probe /\ ~fstat
               THEN [fs EXCEPT ![a.fileobj].pos = 0] ELSE fs
    IN  [err |-> both,
         obj |-> [kind |-> "param", name |-> a.name, value |-> a.value,
                  filename |-> IF a.filename = None THEN None
                               ELSE EscapeFilename(a.filename),
                  filetype |-> a.filetype, filesize |-> size,
                  fileobj |-> a.fileobj, cb |-> a.cb],
         files |-> fs2]

\* MultipartParam.__init__; a holds the arguments, fs the file objects.
\* err is TRUE when the constructor raises ValueError.
MultipartParam(a, fs) ==
    LET both == a.value # None /\ a.fileobj # NoFile
        probe == a.fileobj # NoFile /\ a.filesize = NoSize
        fstat == probe /\ fs[a.fileobj].fileno
        size == IF probe THEN Len(fs[a.fileobj].data) ELSE a.filesize
        fs2 == IF probe /\ ~fstat /\ ~both
               THEN [fs EXCEPT ![a.fileobj].pos = 0] ELSE fs
    IN  [err |-> both,
         obj |-> [kind |-> "param", name |-> a.name, value |-> a.value,
                  filename |-> IF a.filename = None THEN None
                               ELSE EscapeFilename(a.filename),
                  filetype |-> a.filetype, filesize |-> size,
                  fileobj |-> a.fileobj, cb |-> a.cb],
         files |-> fs2]

Args(name, value, filename, filetype, filesize, fileobj, cb) ==
    [name |-> name, value |-> value, filename |-> filename,
     filetype |-> filetype, filesize |-> filesize, fileobj |-> fileobj,
     cb |-> cb]

\* MultipartParam.from_params, one item: a MultipartParam passes through, a
\* value with read() becomes a stream parameter, any other value a text one
FromItem(item, fs) ==
    IF item.kind = "param" THEN [err |-> FALSE, obj |-> item, files |-> fs]
    ELSE IF item.value.kind = "param"
    THEN [err |-> FALSE, obj |-> item.value, files |-> fs]
    ELSE IF item.value.kind = "file"
    THEN MultipartParam(
             Args(item.name, None, fs[item.value.fid].name,
                  IF fs[item.value.fid].name # None
                  THEN guess_type(fs[item.value.fid].name) ELSE None,
                  NoSize, item.value.fid, FALSE), fs)
    ELSE MultipartParam(Args(item.name, item.value.text, None,
                             DefaultFiletype, NoSize, NoFile, FALSE), fs)

\* retval.append(...) with the parameter and the file objects of h
Appended(acc, h) ==
    [params |-> Append(acc.params, h.obj), files |-> h.files]

\* the loop of from_params over the items, in order
RECURSIVE FromItems(_, _)
FromItems(its, acc) ==
    IF its = <<>> THEN acc
    ELSE FromItems(Tail(its), Appended(acc, FromItem(Head(its), acc.files)))

\* a list as the params argument, and a mapping with its keys in order
ListOf(its) == [mapping |-> FALSE, items |-> its]
DictOf(its) ==
    [mapping |-> TRUE,
     keys |-> [k \in 1..Len(its) |-> its[k].name],
     get |-> [nm \in {its[k].name : k \in 1..Len(its)} |->
                its[CHOOSE k \in 1..Len(its) : its[k].name = nm].value]]

\* params.items() of a mapping: one (name, value) pair per key
DictItems(d) ==
    [k \in 1..Len(d.keys) |->
        [kind |-> "pair", name |-> d.keys[k], value |-> d.get[d.keys[k]]]]

\* the items of c without those whose name an earlier item has
FirstOfName(its) ==
    SelectSeq([k \in 1..Len(its) |-> [k |-> k, item |-> its[k]]],
              LAMBDA e : \A j \in 1..(e.k - 1) : its[j].name # e.item.name)

\* from_params keeping one entry per name, as a mapping would
from_params_byName(c, fs) ==
    FromItems([k \in 1..Len(FirstOfName(IF c.mapping THEN DictItems(c)
                                        ELSE c.items)) |->
                  FirstOfName(IF c.mapping THEN DictItems(c)
                              ELSE c.items)[k].item],
              [params |-> <<>>, files |-> fs])

\* MultipartParam.from_params(params)
from_params(c, fs) ==
    FromItems(IF c.mapping THEN DictItems(c) ELSE c.items,
              [params |-> <<>>, files |-> fs])

\* sum(p.get_size(boundary) for p in ps)
RECURSIVE SumSizes(_, _)
SumSizes(ps, b) ==
    IF ps = <<>> THEN 0 ELSE get_size(Head(ps), b) + SumSizes(Tail(ps), b)

\* line 349 on the converted parameters r
BodySize(r, b) ==
    [size |-> SumSizes(r.params, b) + Len(b) + 6, files |-> r.files]

\* get_body_size(params, boundary)
get_body_size(c, b, fs) == BodySize(from_params(c, fs), b)

\* lines 357-358 with the quoted boundary
HeadersFor(c, quoted, fs) ==
    [ContentType |-> quoted] @@ get_body_size(c, quoted, fs)

\* get_headers(params, boundary): the boundary is quoted, the quoted
\* boundary goes into Content-Type and into get_body_size
get_headers(c, b, fs) == HeadersFor(c, quote_plus(b), fs)

\* gen_boundary(): uuid4().hex, a string of hexadecimal digits
GenBoundaries == {<<"a", "1">>}

\* lines 368-372: the yielder with its total, t the result of get_body_size
YielderWith(ps, b, t) ==
    [params |-> ps, boundary |-> b, total |-> t.size, files |-> t.files,
     headers |-> [ContentType |-> None, ContentLength |-> NoSize]]

\* MultipartYielder(params, boundary, cb) on a list of MultipartParam objects
MultipartYielder(ps, b, fs) ==
    YielderWith(ps, b, get_body_size(ListOf(ps), b, fs))

\* line 466: the yielder over the converted parameters r, and the headers h
EncodeResult(r, b, h) ==
    [MultipartYielder(r.params, b, r.files) EXCEPT
        !.headers = [ContentType |-> h.ContentType,
                     ContentLength |-> h.size]]

\* lines 463-464: params converted after get_headers has run
EncodeWithHeaders(c, b, h) == EncodeResult(from_params(c, h.files), b, h)

\* lines 463-466 with the boundary settled
EncodeWith(c, b, fs) == EncodeWithHeaders(c, b, get_headers(c, b, fs))

\* multipart_encode(params, boundary, cb): g is the generated boundary used
\* when the boundary argument is None
multipart_encode(c, barg, g, fs) ==
    EncodeWith(c, IF barg = None THEN g ELSE quote_plus(barg), fs)

\* ------------------------------------------------------------------------
\* State
\* ------------------------------------------------------------------------
VARIABLES
    input,        \* the arguments of the call, and the file objects as the
                  \* first pull finds them
    files,        \* the file objects: data, read position, fileno(), name
    params,       \* MultipartYielder.params
    boundary,     \* MultipartYielder.boundary
    cb,           \* MultipartYielder.cb is set
    i,            \* MultipartYielder.i (INone when None)
    p,            \* MultipartYielder.p, as an index into params (0 when None)
    param_iter,   \* MultipartYielder.param_iter: the suspended generator
    current,      \* MultipartYielder.current
    total,        \* MultipartYielder.total
    headers,      \* the headers multipart_encode returned
    chunks,       \* blocks returned since construction or the last reset()
    cblog,        \* callback invocations since construction or last reset()
    result,       \* how the last pull ended
    reads,        \* the read() calls the last pull made
    failed,       \* a pull has raised an error since the last reset()
    prev,         \* the consumption that the last reset() ended, with its
                  \* output if it was complete, and whether reset() raised
    resets        \* number of reset() calls

vars == <<input, files, params, boundary, cb, i, p, param_iter, current,
          total, headers, chunks, cblog, result, reads, failed, prev, resets>>

\* blocksize default of iter_encode
blocksize == 4096

\* ------------------------------------------------------------------------
\* MultipartParam.iter_encode: one resumption of the generator g of the
\* parameter f, up to its next yield, its end or the error it raises.  n is
\* the number of bytes the source is able to deliver to one read().
\* ------------------------------------------------------------------------
\* fileobj.read(size) on the file object fo
Read(fo, size, n) ==
    LET avail == Len(fo.data) - fo.pos
        k == Min(Min(size, n), avail)
    IN  [block |-> SubSeq(fo.data, fo.pos + 1, fo.pos + k),
         file |-> [fo EXCEPT !.pos = fo.pos + k]]

\* the check of encode without re.M: "^" only at the start of the value, "$"
\* only at its end or before a final LF
InlineCollision_noM(value, b) ==
    \/ value = <<"-", "-">> \o Utf8(b)
    \/ value = <<"-", "-">> \o Utf8(b) \o <<LF>>

\* the check of MultipartParam.encode on the encoded value
InlineCollision(value, b) == Search(<<"-", "-">> \o Utf8(b), value)

\* encode without the header
encode_valueOnly(f, b) == Utf8(f.value) \o CRLF

\* MultipartParam.encode(boundary) for a parameter with a value
encode(f, b) == encode_hdr(f, b) \o Utf8(f.value) \o CRLF

\* encoded_boundary of iter_encode
encoded_boundary(b) == <<"-", "-">> \o encode_and_quote(b)

\* the callbacks a resumption runs before anything else: the statement after
\* the yield the generator is suspended at
CbAfterYield(g, f) ==
    IF g.pc \in {"yield274", "yield280", "yield290", "yield299"} /\ f.cb
    THEN <<[scope |-> g.p, param |-> g.p, current |-> g.current,
            total |-> g.total]>>
    ELSE <<>>

\* lines 288-299 with r the result of the read
AfterRead(g, r, eb, fs) ==
    IF r.block = <<>>
    THEN [out |-> "yield", block |-> CRLF, files |-> fs,
          gen |-> [g EXCEPT !.pc = "yield290", !.current = g.current + 2]]
    ELSE IF Search(eb, g.last_block \o r.block)
    THEN [out |-> "ValueError", block |-> <<>>, files |-> fs,
          gen |-> [g EXCEPT !.pc = "dead",
                            !.last_block = g.last_block \o r.block]]
    ELSE [out |-> "yield", block |-> r.block, files |-> fs,
          gen |-> [g EXCEPT !.pc = "yield299",
                            !.last_block = LastN(g.last_block \o r.block,
                                                 Len(eb) + 2),
                            !.current = g.current + Len(r.block)]]

\* the file objects after the read r of the file object k
FilesAfter(fs, k, r) == [fs EXCEPT ![k] = r.file]

\* the read of line 287 and what follows it
ReadThen(g, f, r, b, fs) ==
    AfterRead(g, r, encoded_boundary(b), FilesAfter(fs, f.fileobj, r))
        @@ [reads |-> <<[param |-> g.p, fileobj |-> f.fileobj,
                         size |-> blocksize, got |-> Len(r.block)]>>]

\* the loop body of lines 287-299
ReadStep(g, f, b, fs, n) ==
    ReadThen(g, f, Read(fs[f.fileobj], blocksize, n), b, fs)

\* a yield of block: the generator is suspended at the line of pc
Yield(g, block, pc, fs) ==
    [out |-> "yield", block |-> block, files |-> fs, reads |-> <<>>,
     gen |-> [g EXCEPT !.pc = pc, !.current = g.current + Len(block)]]

\* the first resumption with a read of the source before the header is
\* yielded
Start_eager(g, f, b, fs) ==
    IF f.value # None
    THEN IF InlineCollision(Utf8(f.value), b)
         THEN [out |-> "ValueError", block |-> <<>>, files |-> fs,
               reads |-> <<>>, gen |-> [g EXCEPT !.pc = "dead"]]
         ELSE Yield(g, encode(f, b), "yield274", fs)
    ELSE [Yield(g, encode_hdr(f, b), "yield280", fs) EXCEPT
             !.reads = <<[param |-> g.p, fileobj |-> f.fileobj,
                          size |-> blocksize, got |-> 0]>>]

\* lines 271-280: the first resumption, g holding total
Start(g, f, b, fs) ==
    IF f.value # None
    THEN IF InlineCollision(Utf8(f.value), b)
         THEN [out |-> "ValueError", block |-> <<>>, files |-> fs,
               reads |-> <<>>, gen |-> [g EXCEPT !.pc = "dead"]]
         ELSE Yield(g, encode(f, b), "yield274", fs)
    ELSE Yield(g, encode_hdr(f, b), "yield280", fs)

\* self.fileobj.read of line 287 when fileobj is None
NoSource(g, fs) ==
    [out |-> "AttributeError", block |-> <<>>, files |-> fs, reads |-> <<>>,
     gen |-> [g EXCEPT !.pc = "dead"]]

iter_encode(g, ps, b, fs, n) ==
    CASE g.pc = "new" ->
            Start([g EXCEPT !.total = get_size(ps[g.p], b)], ps[g.p], b, fs)
      [] g.pc \in {"yield280", "yield299"} /\ ps[g.p].fileobj = NoFile ->
            NoSource(g, fs)
      [] g.pc \in {"yield280", "yield299"} /\ ps[g.p].fileobj # NoFile ->
            ReadStep(g, ps[g.p], b, fs, n)
      [] OTHER -> [out |-> "StopIteration", block |-> <<>>, files |-> fs,
                   reads |-> <<>>, gen |-> [g EXCEPT !.pc = "dead"]]

\* a generator over the first parameter, whatever k is
NewIter_first(k) ==
    [pc |-> "new", p |-> 1, current |-> 0, total |-> 0, last_block |-> <<>>]

\* iter_encode(boundary) called: a generator that has not started
NewIter(k) ==
    [pc |-> "new", p |-> k, current |-> 0, total |-> 0, last_block |-> <<>>]

\* ------------------------------------------------------------------------
\* Inputs
\* ------------------------------------------------------------------------
NoFileObj == [data |-> <<>>, pos |-> 0, fileno |-> FALSE, name |-> None]

Texts == {<<"u00E9">>, <<"-", "-", "b">>}

FileObjs ==
    {[data |-> <<"x", LF, "y">>, pos |-> 0, fileno |-> TRUE, name |-> None],
     [data |-> <<"x", LF, "y">>, pos |-> 1, fileno |-> TRUE, name |-> None],
     [data |-> <<"x", LF, "y">>, pos |-> 1, fileno |-> FALSE, name |-> None]}

\* a MultipartParam built beforehand over the file object fo, with the size
\* of what is left to read, a filename and a callback
SizedStream(fo) ==
    [kind |-> "obj", paired |-> FALSE,
     args |-> Args(<<"g">>, None, <<"n">>, None, Len(fo.data) - fo.pos, 1,
                   TRUE),
     file |-> fo]

\* what the caller writes for one entry of params: a (name, text) pair, a
\* (name, file object) pair, or a MultipartParam built beforehand, alone or
\* paired with its name
Entries ==
    [kind : {"text"}, name : {<<"k">>}, text : Texts, file : {NoFileObj}]
    \cup [kind : {"file"}, name : {<<"f">>}, file : FileObjs]
    \cup [kind : {"obj"}, paired : BOOLEAN,
          args : {Args(<<"k">>, <<"w">>, None, DefaultFiletype, NoSize,
                       NoFile, TRUE)},
          file : {NoFileObj}]
    \cup {SizedStream(fo) : fo \in {o \in FileObjs : o.fileno /\ o.pos = 1}}

\* a MultipartParam built beforehand with a size and neither a value nor a
\* file object, as encode_file_header builds
HeaderOnly ==
    [kind |-> "obj", paired |-> FALSE,
     args |-> Args(<<"h">>, None, None, None, 1, NoFile, FALSE),
     file |-> NoFileObj]

\* the entries of the runs with reset(): a text, a file object at its start,
\* a MultipartParam over a file object that is not at its start and one with
\* neither value nor file object
ReplayEntries ==
    [kind : {"text"}, name : {<<"k">>}, text : {<<"u00E9">>},
     file : {NoFileObj}]
    \cup [kind : {"file"}, name : {<<"f">>},
          file : {o \in FileObjs : o.pos = 0}]
    \cup {SizedStream(fo) : fo \in {o \in FileObjs : o.fileno /\ o.pos = 1}}
    \cup {HeaderOnly}

BoundaryArgs == {<<"b">>, <<"a", " ", "b">>}

\* a MultipartParam built beforehand as an item: alone or paired with its name
ObjItem(e, r) ==
    [item |-> IF e.paired
              THEN [kind |-> "pair", name |-> r.obj.name, value |-> r.obj]
              ELSE r.obj,
     files |-> r.files]

\* the entry e, the k-th of the list, as an item of params; its file object
\* is files[k], and a MultipartParam built beforehand is constructed here
Item(e, k, fs) ==
    CASE e.kind = "text" ->
            [item |-> [kind |-> "pair", name |-> e.name,
                       value |-> [kind |-> "text", text |-> e.text]],
             files |-> fs]
      [] e.kind = "file" ->
            [item |-> [kind |-> "pair", name |-> e.name,
                       value |-> [kind |-> "file", fid |-> k]],
             files |-> fs]
      [] OTHER ->
            ObjItem(e, MultipartParam(IF e.args.fileobj = NoFile THEN e.args
                                      ELSE [e.args EXCEPT !.fileobj = k],
                                      fs))

ItemAdded(acc, h) ==
    [items |-> Append(acc.items, h.item), files |-> h.files]

RECURSIVE Items(_, _, _)
Items(es, k, acc) ==
    IF k > Len(es) THEN acc
    ELSE Items(es, k + 1, ItemAdded(acc, Item(es[k], k, acc.files)))

\* the names of a mapping are distinct, and a mapping holds (name, value)
ValidMapping(es) ==
    /\ \A k \in 1..Len(es) : es[k].kind \in {"text", "file"}
    /\ \A j, k \in 1..Len(es) : j # k => es[j].name # es[k].name

NoResult == [out |-> "none", started |-> 0]

\* the params argument: a mapping or a list of the items
ParamsArg(mapping, items) ==
    IF mapping THEN DictOf(items) ELSE ListOf(items)

\* the call the caller makes: multipart_encode, or from_params and then
\* MultipartYielder
Construct(raw, barg, viaEncode, fs) ==
    IF viaEncode
    THEN multipart_encode(raw, barg, CHOOSE g \in GenBoundaries : TRUE, fs)
    ELSE MultipartYielder(from_params(raw, fs).params, barg,
                          from_params(raw, fs).files)

\* the state after construction, before the first pull
Constructed(raw, barg, viaEncode, topcb, y) ==
    /\ input = [params |-> raw, barg |-> barg, viaEncode |-> viaEncode,
                files |-> y.files]
    /\ files = y.files
    /\ params = y.params
    /\ boundary = y.boundary
    /\ total = y.total
    /\ headers = y.headers
    /\ cb = topcb
    /\ i = 0
    /\ p = 0
    /\ param_iter = NoIter
    /\ current = 0
    /\ chunks = <<>>
    /\ cblog = <<>>
    /\ result = NoResult
    /\ reads = <<>>
    /\ failed = FALSE
    /\ prev = [done |-> FALSE, failed |-> FALSE, out |-> <<>>,
               raised |-> FALSE]
    /\ resets = 0

InitWith(es, mapping, barg, viaEncode, topcb) ==
    \E its \in {Items(es, 1, [items |-> <<>>,
                              files |-> [k \in 1..Len(es) |-> es[k].file]])} :
        \E y \in {Construct(ParamsArg(mapping, its.items), barg, viaEncode,
                            its.files)} :
            Constructed(ParamsArg(mapping, its.items), barg, viaEncode,
                        topcb, y)

\* the lists of at most MaxFields of the entries es
EntryLists(es) == UNION {[1..n -> es] : n \in 0..MaxFields}

\* multipart_encode or MultipartYielder called on a list or mapping of the
\* entries es, with or without a boundary and a callback
InitOver(es, cbs) ==
    \E l \in EntryLists(es), mapping \in BOOLEAN,
       barg \in BoundaryArgs \cup {None}, viaEncode \in BOOLEAN,
       topcb \in cbs :
        /\ mapping => ValidMapping(l)
        /\ barg = None => viaEncode
        /\ InitWith(l, mapping, barg, viaEncode, topcb)

Init == InitOver(ReplayEntries, {TRUE})

InitEncode == InitOver(Entries, BOOLEAN)

\* ------------------------------------------------------------------------
\* MultipartYielder.__next__: one pull
\* ------------------------------------------------------------------------
closing(b) == <<"-", "-">> \o b \o <<"-", "-">> \o CRLF

\* the callback given the count before the block was added
TopCb_stale(pp, cur) ==
    IF cb THEN <<[scope |-> 0, param |-> pp, current |-> current,
                  total |-> total]>>
    ELSE <<>>

TopCb(pp, cur) ==
    IF cb THEN <<[scope |-> 0, param |-> pp, current |-> cur,
                  total |-> total]>>
    ELSE <<>>

\* lines 384-388 and the return of the block r.block of the parameter pp
ReturnBlock(r, pp, ii, log, started) ==
    /\ current' = current + Len(r.block)
    /\ cblog' = log \o TopCb(pp, current + Len(r.block))
    /\ chunks' = Append(chunks, [src |-> pp, bytes |-> r.block])
    /\ param_iter' = r.gen
    /\ files' = r.files
    /\ p' = pp
    /\ i' = ii
    /\ result' = [out |-> "chunk", started |-> started]
    /\ reads' = r.reads
    /\ UNCHANGED failed

\* the exception leaves __next__ after the callback has been called
Raise_logged(r, pp, ii, log, started) ==
    /\ param_iter' = r.gen
    /\ files' = r.files
    /\ p' = pp
    /\ i' = ii
    /\ cblog' = log \o TopCb(pp, current)
    /\ result' = [out |-> r.out, started |-> started]
    /\ reads' = r.reads
    /\ failed' = TRUE
    /\ UNCHANGED <<current, chunks>>

\* the generator raised: the exception leaves __next__
Raise(r, pp, ii, log, started) ==
    /\ param_iter' = r.gen
    /\ files' = r.files
    /\ p' = pp
    /\ i' = ii
    /\ cblog' = log
    /\ result' = [out |-> r.out, started |-> started]
    /\ reads' = r.reads
    /\ failed' = TRUE
    /\ UNCHANGED <<current, chunks>>

\* lines 403-406: the next parameter becomes the current one and the
\* recursive call resumes its new generator, with result r
StartField(r, log) ==
    IF r.out = "yield"
    THEN ReturnBlock(r, i + 1, i + 1, log, i + 1)
    ELSE Raise(r, i + 1, i + 1, log, i + 1)

\* lines 392-406 with i left at len(params) after the closing block
Advance_stay(log, n) ==
    IF i = INone
    THEN /\ result' = [out |-> "StopIteration", started |-> 0]
         /\ p' = 0
         /\ param_iter' = NoIter
         /\ cblog' = log
         /\ reads' = <<>>
         /\ UNCHANGED <<i, current, chunks, files, failed>>
    ELSE IF i >= Len(params)
    THEN ReturnBlock([block |-> closing(boundary), gen |-> NoIter,
                      files |-> files, reads |-> <<>>], 0, i, log, 0)
    ELSE StartField(iter_encode(NewIter(i + 1), params, boundary, files, n),
                    log)

\* lines 392-406, reached with p and param_iter None
Advance(log, n) ==
    IF i = INone
    THEN /\ result' = [out |-> "StopIteration", started |-> 0]
         /\ p' = 0
         /\ param_iter' = NoIter
         /\ cblog' = log
         /\ reads' = <<>>
         /\ UNCHANGED <<i, current, chunks, files, failed>>
    ELSE IF i >= Len(params)
    THEN ReturnBlock([block |-> closing(boundary), gen |-> NoIter,
                      files |-> files, reads |-> <<>>], 0, INone, log, 0)
    ELSE StartField(iter_encode(NewIter(i + 1), params, boundary, files, n),
                    log)

\* the pull returning when the generator has ended, without going on to the
\* next parameter
Resume_stuck(r, log, n) ==
    CASE r.out = "yield" -> ReturnBlock(r, p, i, log, 0)
      [] r.out \in {"ValueError", "AttributeError"} -> Raise(r, p, i, log, 0)
      [] OTHER -> UNCHANGED <<i, p, param_iter, current, chunks, cblog,
                              result, reads, files, failed>>

\* lines 382-390: the suspended generator is resumed, with result r; a
\* generator that ends has made no read
Resume(r, log, n) ==
    CASE r.out = "yield" -> ReturnBlock(r, p, i, log, 0)
      [] r.out \in {"ValueError", "AttributeError"} -> Raise(r, p, i, log, 0)
      [] OTHER -> Advance(log, n)

Pull ==
    \E n \in 1..MaxRead :
        /\ IF param_iter.pc # "none"
           THEN Resume(iter_encode(param_iter, params, boundary, files, n),
                       cblog \o CbAfterYield(param_iter,
                                             params[param_iter.p]),
                       n)
           ELSE Advance(cblog, n)
        /\ UNCHANGED <<input, params, boundary, cb, total, headers, prev,
                       resets>>

\* reset() that leaves the read positions where they are
ResetAll_noSeek(ps, fs) == fs

\* MultipartParam.reset() of every parameter, on the file objects fs
RECURSIVE ResetAll(_, _)
ResetAll(ps, fs) ==
    IF ps = <<>> THEN fs
    ELSE ResetAll(Tail(ps),
                  IF Head(ps).fileobj # NoFile
                  THEN [fs EXCEPT ![Head(ps).fileobj].pos = 0]
                  ELSE fs)

\* MultipartParam.reset() of f raises: f has neither file object nor value
ResetRaises(f) == f.fileobj = NoFile /\ f.value = None

\* the loop of line 414 going on after a reset() that raises
ResetReach_all(ps) == SelectSeq(ps, LAMBDA f : ~ResetRaises(f))

\* the parameters the loop of line 414 reaches: those before the first whose
\* reset() raises
RECURSIVE ResetReach(_)
ResetReach(ps) ==
    IF ps = <<>> \/ ResetRaises(Head(ps)) THEN <<>>
    ELSE <<Head(ps)>> \o ResetReach(Tail(ps))

\* MultipartYielder.reset()
Reset ==
    /\ resets < MaxResets
    /\ i' = 0
    /\ current' = 0
    /\ files' = ResetAll(ResetReach(params), files)
    /\ prev' = [done |-> i = INone, failed |-> failed,
                out |-> IF i = INone
                        THEN Flatten([k \in 1..Len(chunks) |->
                                         chunks[k].bytes])
                        ELSE <<>>,
                raised |-> \E k \in 1..Len(params) : ResetRaises(params[k])]
    /\ chunks' = <<>>
    /\ cblog' = <<>>
    /\ reads' = <<>>
    /\ failed' = FALSE
    /\ result' = NoResult
    /\ resets' = resets + 1
    /\ UNCHANGED <<input, params, boundary, cb, p, param_iter, total,
                   headers>>

Next == Pull \/ Reset

Spec == Init /\ [][Next]_vars

\* one consumption, without reset(), over the larger set of inputs
SpecEncode == InitEncode /\ [][Pull]_vars

\* one consumption by a caller that keeps pulling: a pull that would change
\* the state is made in the end
SpecLive == InitEncode /\ [][Pull]_vars /\ WF_vars(Pull)

\* ------------------------------------------------------------------------
\* One MultipartParam, of any arguments, constructed and encoded
\* ------------------------------------------------------------------------
ParamFiles ==
    {fo \in [data : {<<>>, <<"x", LF, "y">>}, pos : 0..3, fileno : BOOLEAN,
             name : {None}] : fo.pos <= Len(fo.data)}

\* the arguments of MultipartParam(...): with or without a value, a file
\* object and a size
ParamArgs ==
    {Args(<<"k">>, v, None, DefaultFiletype, size, fid, FALSE) :
        v \in {None, <<"w">>}, size \in {NoSize, 1}, fid \in {NoFile, 1}}

\* before the call: the arguments and the file object the caller holds
InitParam ==
    \E a \in ParamArgs, fo \in ParamFiles :
        /\ input = [args |-> a, before |-> <<fo>>]
        /\ files = <<fo>>
        /\ params = <<>>
        /\ boundary = <<"b">>
        /\ total = 0
        /\ headers = [ContentType |-> None, ContentLength |-> NoSize]
        /\ cb = FALSE
        /\ i = 0
        /\ p = 0
        /\ param_iter = NoIter
        /\ current = 0
        /\ chunks = <<>>
        /\ cblog = <<>>
        /\ result = NoResult
        /\ reads = <<>>
        /\ failed = FALSE
        /\ prev = [done |-> FALSE, failed |-> FALSE, out |-> <<>>,
                   raised |-> FALSE]
        /\ resets = 0

\* the yielder y over the parameter just constructed
Wrapped(y) ==
    /\ params' = y.params
    /\ files' = y.files
    /\ total' = y.total
    /\ result' = [out |-> "constructed", started |-> 0]

\* MultipartYielder([MultipartParam(...)], "b", None) with r the result of
\* the constructor: the constructor raises ValueError, or get_size raises
\* AttributeError on a parameter without value and size, or the yielder is
\* there
Built(r) ==
    IF r.err \/ (r.obj.value = None /\ r.obj.filesize = NoSize)
    THEN /\ result' = [out |-> IF r.err THEN "ValueError"
                               ELSE "AttributeError",
                       started |-> 0]
         /\ files' = r.files
         /\ UNCHANGED <<params, total>>
    ELSE Wrapped(MultipartYielder(<<r.obj>>, boundary, r.files))

New ==
    /\ result.out = "none"
    /\ params = <<>>
    /\ Built(MultipartParam(input.args, files))
    /\ UNCHANGED <<input, boundary, headers, cb, i, p, param_iter, current,
                   chunks, cblog, reads, failed, prev, resets>>

\* a pull of the yielder that New has built
PullParam == params # <<>> /\ Pull

NextParam == New \/ PullParam

SpecParam == InitParam /\ [][NextParam]_vars

\* ------------------------------------------------------------------------
\* The collision scan: one field, inline or streamed, whose body is any
\* text over "-", LF and the character of the boundary, pulled to the end
\* ------------------------------------------------------------------------
ScanBoundaries == {<<"b">>, <<"%">>}

ScanBodies(c, n) == UNION {[1..m -> {"-", LF, c}] : m \in 0..n}

ScanEntries(c) ==
    [kind : {"text"}, name : {<<"k">>}, text : ScanBodies(c, MaxText),
     file : {NoFileObj}]
    \cup [kind : {"file"}, name : {<<"f">>},
          file : [data : ScanBodies(c, MaxData), pos : {0},
                  fileno : {TRUE}, name : {None}]]
    \cup {SizedStream(fo) :
             fo \in [data : ScanBodies(c, MaxData), pos : {0},
                     fileno : {TRUE}, name : {None}]}

InitScan ==
    \E b \in ScanBoundaries :
        \E e \in ScanEntries(b[1]) : InitWith(<<e>>, FALSE, b, FALSE, TRUE)

SpecScan == InitScan /\ [][Pull]_vars

\* ------------------------------------------------------------------------
\* Properties
\* ------------------------------------------------------------------------
\* the concatenation of every block returned in this consumption
Out == Flatten([k \in 1..Len(chunks) |-> chunks[k].bytes])

\* the closing block has been returned: i is None
Finished == i = INone

\* a consumption from construction to the closing block in which no pull raised
FirstRunDone == Finished /\ resets = 0 /\ ~failed

\* the bytes the source of parameter k delivers from the position it has
\* when the first pull reaches it
Delivered(k) ==
    LET fo == input.files[params[k].fileobj]
    IN  SubSeq(fo.data, fo.pos + 1, Len(fo.data))

\* the known size of a stream parameter is the number of bytes it delivers
ValidField(k) ==
    IF params[k].fileobj # NoFile
    THEN params[k].filesize = Len(Delivered(k))
    ELSE params[k].filesize = NoSize

AllValid == \A k \in 1..Len(params) : ValidField(k)

IsStream(k) == params[k].fileobj # NoFile

\* C1: when a list of valid fields has been pulled to the end without an
\* error, the number of bytes returned equals get_body_size(fields, boundary)
C1_SizeStreamAgreement ==
    (FirstRunDone /\ AllValid)
        => Len(Out) = get_body_size(ListOf(params), boundary, files).size

\* C1 witness: a finished consumption of an inline field and a stream field
\* that came in more than one read
C1_Witness ==
    /\ FirstRunDone /\ AllValid
    /\ \E k \in 1..Len(params) : ~IsStream(k)
    /\ \E k \in 1..Len(params) :
          IsStream(k) /\ Cardinality({j \in 1..Len(chunks) :
                                         chunks[j].src = k}) >= 4

\* C2: the Content-Length that multipart_encode returns is the number of
\* bytes its sequence yields, for a generated and for any supplied boundary
C2_ContentLength ==
    (FirstRunDone /\ AllValid /\ input.viaEncode)
        => headers.ContentLength = Len(Out)

\* the entries of the params argument, in the order the caller gave them
EntryCount ==
    IF input.params.mapping THEN Len(input.params.keys)
    ELSE Len(input.params.items)

Entry(k) ==
    IF input.params.mapping
    THEN [kind |-> "pair", name |-> input.params.keys[k],
          value |-> input.params.get[input.params.keys[k]]]
    ELSE input.params.items[k]

\* the part the wire format of section 6 prescribes for the k-th entry: its
\* header, its body bytes and a CRLF
EntryPart(k) ==
    LET e == Entry(k)
        v == IF e.kind = "param" THEN e ELSE e.value
        fo == IF v.kind = "file" THEN input.files[v.fid]
              ELSE IF v.kind = "param" /\ v.fileobj # NoFile
              THEN input.files[v.fileobj] ELSE NoFileObj
        body == IF v.kind = "text" THEN Utf8(v.text)
                ELSE IF v.kind = "param" /\ v.value # None THEN Utf8(v.value)
                ELSE SubSeq(fo.data, fo.pos + 1, Len(fo.data))
        filename == IF v.kind = "param" THEN v.filename ELSE None
        filetype == IF v.kind = "param" /\ v.filetype # None THEN v.filetype
                    ELSE DefaultFiletype
    IN  <<"-", "-">> \o quote_plus(boundary) \o CRLF
          \o DispositionPrefix \o e.name
          \o (IF filename = None THEN <<>> ELSE FilenamePrefix \o filename)
          \o <<"\"">> \o CRLF
          \o ContentTypePrefix \o filetype \o CRLF \o CRLF
          \o body \o CRLF

ExpectedOut ==
    Flatten([k \in 1..EntryCount |-> EntryPart(k)])
        \o <<"-", "-">> \o boundary \o <<"-", "-", CR, LF>>

\* C3: the concatenated output is, for each input entry in turn, its header,
\* its body and a CRLF, followed by one closing marker --{boundary}--CRLF
C3_OutputIsEntriesInOrder == FirstRunDone => Out = ExpectedOut

\* C3 witness: a finished consumption of two entries with the same name and
\* different values, one a plain pair and one a MultipartParam
C3_Witness ==
    /\ FirstRunDone
    /\ EntryCount = 2
    /\ Entry(1).kind = "pair" /\ Entry(1).value.kind = "text"
    /\ Entry(2).kind = "param" /\ Entry(2).value # None
    /\ Entry(1).name = Entry(2).name
    /\ Entry(1).value.text # Entry(2).value

\* the position of a block in the order of emission: the index of its field,
\* the closing block after the last field
Rank(j) == IF chunks[j].src = 0 THEN Len(params) + 1 ELSE chunks[j].src

\* the offset in the output at which the j-th block begins
Offset(j) == Len(Flatten([m \in 1..(j - 1) |-> chunks[m].bytes]))

\* the first block of field k
FirstChunk(k) ==
    CHOOSE j \in 1..Len(chunks) :
        /\ chunks[j].src = k
        /\ \A m \in 1..(j - 1) : chunks[m].src # k

IsPrefix(s, t) == Len(s) <= Len(t) /\ SubSeq(t, 1, Len(s)) = s

RECURSIVE SplitLines(_, _)
SplitLines(s, line) ==
    IF s = <<>> THEN <<line>>
    ELSE IF Head(s) = LF THEN <<line>> \o SplitLines(Tail(s), <<>>)
    ELSE SplitLines(Tail(s), Append(line, Head(s)))

HasLine(body, tok) ==
    \E k \in 1..Len(SplitLines(body, <<>>)) : SplitLines(body, <<>>)[k] = tok

\* the delimiter line --{boundary} of the boundary the assembler was given
BoundaryLine == <<"-", "-">> \o Utf8(boundary)

\* the body of field k
Body(k) == IF IsStream(k) THEN Delivered(k) ELSE Utf8(params[k].value)

\* C5: an inline field whose encoded text has a line equal to --{boundary}
\* fails on the pull that starts it, and none of its bytes is ever yielded
C5_InlineCollision ==
    \A k \in 1..Len(params) :
        (~IsStream(k) /\ HasLine(Body(k), BoundaryLine)) =>
            /\ \A j \in 1..Len(chunks) : chunks[j].src # k
            /\ result.started = k => result.out = "ValueError"
            /\ (i = INone \/ i >= k) => failed

\* C5 witness: the pull that started an inline field raised, the line being
\* neither the first nor the last line of the text
C5_Witness ==
    /\ result = [out |-> "ValueError", started |-> 1]
    /\ ~IsStream(1)
    /\ Len(Body(1)) = Len(BoundaryLine) + 2
    /\ Body(1)[1] = LF /\ Body(1)[Len(Body(1))] = LF
    /\ chunks = <<>>

\* C6: a stream field whose data has a line equal to --{boundary} never gets
\* to the end of its data: a read raises the collision error before
C6_StreamCollision ==
    \A k \in 1..Len(params) :
        (IsStream(k) /\ HasLine(Body(k), BoundaryLine)) =>
            ~(param_iter.pc = "yield290" /\ param_iter.p = k)

\* C7: a pull raises the collision error only in a field whose body has a
\* line equal to --{boundary}
C7_LineAnchoredOnly ==
    result.out = "ValueError" => HasLine(Body(p), BoundaryLine)

\* a completed consumption, reset(), and a second completed consumption,
\* neither with an error
Replayed == resets = 1 /\ prev.done /\ ~prev.failed /\ Finished /\ ~failed

\* every source was at its start when the first consumption began
SourcesAtStart ==
    \A k \in 1..Len(params) :
        IsStream(k) => input.files[params[k].fileobj].pos = 0

\* C8 as stated: after reset() the second consumption yields the bytes of
\* the first, for every list of inline and rewindable stream fields
C8_ReplayAnySource == Replayed => Out = prev.out

\* C8 amended: the same, for sources that were at their start when the first
\* consumption began
C8_ReplayFromStart == (Replayed /\ SourcesAtStart) => Out = prev.out

\* C8 witness: a replay of an inline field and a stream field with data
C8_Witness ==
    /\ Replayed /\ SourcesAtStart
    /\ \E k \in 1..Len(params) : ~IsStream(k)
    /\ \E k \in 1..Len(params) : IsStream(k) /\ Len(Delivered(k)) > 1

TopLog == SelectSeq(cblog, LAMBDA c : c.scope = 0)
FieldLog(k) == SelectSeq(cblog, LAMBDA c : c.scope = k)
ChunksOf(k) == SelectSeq(chunks, LAMBDA c : c.src = k)

\* the bytes of the first j blocks of cs
CumLen(cs, j) == Len(Flatten([m \in 1..j |-> cs[m].bytes]))

NonDecreasing(log) ==
    \A j \in 1..(Len(log) - 1) : log[j].current <= log[j + 1].current

ClosingMarker == <<"-", "-">> \o boundary \o <<"-", "-", CR, LF>>

\* C10: the closing block is returned once per consumption, as the last
\* block, and i becomes None in the pull that returns it; from then on every
\* pull reports end-of-sequence until reset(); for an empty list the closing
\* block is the only block
C10_StateMachine ==
    /\ [](/\ \A j \in 1..Len(chunks) :
                chunks[j].src = 0 =>
                    /\ j = Len(chunks)
                    /\ chunks[j].bytes = ClosingMarker
                    /\ i = INone
          /\ i = INone => (chunks # <<>> /\ chunks[Len(chunks)].src = 0)
          /\ Len(params) = 0 => Len(chunks) <= 1)
    /\ [][/\ (i = INone /\ resets' = resets) =>
                /\ i' = INone
                /\ chunks' = chunks
                /\ result'.out = "StopIteration"
          /\ (i # INone /\ i' = INone) =>
                chunks' = Append(chunks, [src |-> 0, bytes |-> ClosingMarker])
         ]_vars

\* C10 witness: end-of-sequence reported after the closing block of a list
\* of two fields
C10_Witness ==
    /\ result.out = "StopIteration"
    /\ i = INone
    /\ Len(params) = 2
    /\ chunks[Len(chunks)].bytes = ClosingMarker

\* C10 witness for the empty list: its only block is the closing block
C10_WitnessEmpty == Len(params) = 0 /\ chunks = <<[src |-> 0, bytes |-> ClosingMarker]>>

\* the bytes of s before its first CR
RECURSIVE BeforeCR(_)
BeforeCR(s) ==
    IF s = <<>> \/ Head(s) = CR THEN <<>>
    ELSE <<Head(s)>> \o BeforeCR(Tail(s))

\* the token of the delimiter line that begins the part of field k
DelimiterToken(k) == Tail(Tail(BeforeCR(chunks[FirstChunk(k)].bytes)))

\* the token between "--" and "--" CRLF in the closing block
ClosingToken ==
    SubSeq(chunks[Len(chunks)].bytes, 3, Len(chunks[Len(chunks)].bytes) - 4)

\* the token the collision check of field k looks for after "--"
CheckedToken(k) ==
    IF IsStream(k) THEN Tail(Tail(encoded_boundary(boundary)))
    ELSE Utf8(boundary)

\* C11: after a full consumption of what multipart_encode returned, the
\* token of every part's delimiter line, the token of the closing marker and
\* the token the collision check looks for are the token of Content-Type
C11_OneToken ==
    (FirstRunDone /\ input.viaEncode) =>
        /\ ClosingToken = headers.ContentType
        /\ \A k \in 1..Len(params) :
              /\ DelimiterToken(k) = headers.ContentType
              /\ CheckedToken(k) = headers.ContentType

\* the call gave both a value and a file object
BothGiven == input.args.value # None /\ input.args.fileobj # NoFile

\* the constructor raised its ValueError: no parameter, no yielder
Rejected == result.out = "ValueError" /\ params = <<>>

\* the rejection of a call with both, and nothing done to the file object
RejectsBoth ==
    result.out # "none" =>
        /\ BothGiven <=> Rejected
        /\ Rejected => (files = input.before /\ chunks = <<>> /\ reads = <<>>)

\* C12 as stated: a call with both a value and a file object raises before
\* the file object is probed, sought or read, and every field of which a
\* block has been returned has exactly one of the two
C12_ExactlyOne ==
    /\ RejectsBoth
    /\ \A j \in 1..Len(chunks) :
          chunks[j].src # 0 =>
              (params[chunks[j].src].value # None)
                  # (params[chunks[j].src].fileobj # NoFile)

\* C12 amended: a call with both a value and a file object raises before
\* the file object is probed, sought or read, and no constructed field has
\* both
C12_NotBoth ==
    /\ RejectsBoth
    /\ \A k \in 1..Len(params) :
          ~(params[k].value # None /\ params[k].fileobj # NoFile)

\* C12 witness: the constructor raised on a value and a file object without
\* fileno() that is not at its start, no size given
C12_Witness ==
    /\ Rejected /\ BothGiven
    /\ input.args.filesize = NoSize
    /\ ~input.before[1].fileno /\ input.before[1].pos > 0

\* the part of field k as an assembler just built yields it once every
\* source is at its start: header, whole body, CRLF
PartFromStart(k) ==
    encode_hdr(params[k], boundary)
        \o (IF IsStream(k) THEN files[params[k].fileobj].data
            ELSE Utf8(params[k].value))
        \o CRLF

FullEncoding ==
    Flatten([k \in 1..Len(params) |-> PartFromStart(k)])
        \o closing(boundary)

\* C13: whatever the state reset() was called in, the blocks pulled after
\* it up to end-of-sequence, no pull raising, are the full encoding from the
\* first field's header on, and current ends at their length
C13_ResetRestarts ==
    (resets >= 1 /\ ~prev.raised /\ Finished /\ ~failed) =>
        /\ Out = FullEncoding
        /\ current = Len(FullEncoding)

\* C14: once a pull has raised the collision error, no later pull returns a
\* block and the assembler does not become Finished; it is Finished only
\* with current = total
C14_CollisionFatal ==
    resets = 0 =>
        /\ failed => (result.out # "chunk" /\ ~Finished)
        /\ (Finished /\ AllValid) => current = total

\* the bytes of the blocks returned for field k
FieldOut(k) == Flatten([m \in 1..Len(ChunksOf(k)) |-> ChunksOf(k)[m].bytes])

\* the data of field k from where its source was at the first pull up to
\* the position n
ReadUpTo(k, n) ==
    SubSeq(files[params[k].fileobj].data,
           input.files[params[k].fileobj].pos + 1, n)

\* C15: when a pull raises on the block a read of a stream field returned,
\* the block is not returned, current and the callbacks report the bytes
\* returned before, and the field's blocks are its header and the data of
\* the earlier reads
C15_NoChunkOnFailure ==
    (resets = 0 /\ result.out = "ValueError" /\ IsStream(p)) =>
        /\ Len(reads) = 1 /\ reads[1].got > 0
        /\ FieldOut(p)
              = encode_hdr(params[p], boundary)
                  \o ReadUpTo(p, files[params[p].fileobj].pos - reads[1].got)
        /\ current = Len(Out)
        /\ cb => (Len(TopLog) = Len(chunks)
                  /\ TopLog[Len(TopLog)].current = Len(Out))
        /\ params[p].cb =>
              (Len(FieldLog(p)) = Len(ChunksOf(p))
               /\ FieldLog(p)[Len(FieldLog(p))].current = Len(FieldOut(p)))

\* C15 witness: the pull raised on the third read of a stream field with a
\* callback, two blocks of data having been returned
C15_Witness ==
    /\ resets = 0 /\ result.out = "ValueError" /\ IsStream(p)
    /\ cb /\ params[p].cb
    /\ Len(ChunksOf(p)) = 3
    /\ Len(FieldOut(p)) > Len(encode_hdr(params[p], boundary)) + 1

\* field k has neither a value nor a source
Neither(k) == params[k].value = None /\ params[k].fileobj = NoFile

\* the loop of MultipartYielder.reset() gets to field k and its reset()
\* returns: no field up to k has neither value nor source
ResetDone(k) == \A j \in 1..k : ~Neither(j)

\* C16: MultipartYielder.reset() resets the fields in order; the source of a
\* stream field is moved to its start and is otherwise as it was, an inline
\* field changes nothing, the first field with neither value nor source
\* makes reset() raise and the fields after it are not reset; the fields
\* themselves, the boundary and the total do not change
C16_ResetSemantics ==
    [][resets' # resets =>
          /\ i' = 0 /\ current' = 0
          /\ <<params, boundary, total, cb>>' = <<params, boundary, total, cb>>
          /\ prev'.raised <=> \E k \in 1..Len(params) : Neither(k)
          /\ Len(files') = Len(files)
          /\ \A fid \in 1..Len(files) :
                IF \E k \in 1..Len(params) :
                       params[k].fileobj = fid /\ ResetDone(k)
                THEN files'[fid] = [files[fid] EXCEPT !.pos = 0]
                ELSE files'[fid] = files[fid]
      ]_vars

\* C16 witness: reset() has just raised on a first field with neither value
\* nor source, and the source of the stream field after it is where the
\* pulls before left it
C16_Witness ==
    /\ resets = 1 /\ prev.raised /\ result = NoResult
    /\ Len(params) = 2 /\ Neither(1)
    /\ IsStream(2) /\ files[params[2].fileobj].pos > 1

\* C16 witness of a reset() that returns: an inline field and a stream field
\* whose source is at its start after a finished consumption
C16_WitnessRewound ==
    /\ resets = 1 /\ ~prev.raised /\ prev.done /\ result = NoResult
    /\ Len(params) = 2 /\ ~IsStream(1) /\ ~Neither(1)
    /\ IsStream(2) /\ files[params[2].fileobj].pos = 0

\* the blocks of field k, as bytes
Blocks(k) == [m \in 1..Len(ChunksOf(k)) |-> ChunksOf(k)[m].bytes]

\* the first block of field k is its header
HeaderFirst(k) == Blocks(k)[1] = encode_hdr(params[k], boundary)

\* C17 as stated: the first block of every field is exactly its header; an
\* inline field has then its encoded value as second block and CRLF as
\* third, its callback called after each
C17_ThreeChunks ==
    FirstRunDone =>
        \A k \in 1..Len(params) :
            /\ HeaderFirst(k)
            /\ ~IsStream(k) =>
                  /\ Blocks(k) = <<encode_hdr(params[k], boundary),
                                   Utf8(params[k].value), CRLF>>
                  /\ params[k].cb => Len(FieldLog(k)) = 3

\* C17 amended: the first block of a stream field is exactly its header,
\* blocks of data and one CRLF block follow; an inline field is one block,
\* header, encoded value and CRLF together; the field's callback is called
\* once for each of the field's blocks
C17_ChunkStructure ==
    FirstRunDone =>
        \A k \in 1..Len(params) :
            /\ IsStream(k) =>
                  /\ HeaderFirst(k)
                  /\ Blocks(k)[Len(Blocks(k))] = CRLF
                  /\ Flatten(SubSeq(Blocks(k), 2, Len(Blocks(k)) - 1))
                        = Delivered(k)
                  /\ \A m \in 2..(Len(Blocks(k)) - 1) : Blocks(k)[m] # <<>>
            /\ ~IsStream(k) =>
                  Blocks(k) = <<encode_hdr(params[k], boundary)
                                  \o Utf8(params[k].value) \o CRLF>>
            /\ params[k].cb => Len(FieldLog(k)) = Len(Blocks(k))

\* C17 witness: a full consumption of an inline field and a stream field
\* with data, both with a callback
C17_Witness ==
    /\ FirstRunDone
    /\ \E k \in 1..Len(params) : ~IsStream(k) /\ params[k].cb
    /\ \E k \in 1..Len(params) :
          IsStream(k) /\ params[k].cb /\ Len(Blocks(k)) >= 4

\* the read rd that a pull made is one read of at most blocksize bytes from
\* the source of the field whose block the pull returns or fails on
BoundedRead(rd, pp) ==
    /\ rd.size = blocksize
    /\ rd.got <= rd.size
    /\ rd.param = pp
    /\ pp # 0 /\ rd.fileobj = params[pp].fileobj

\* C18: a source is where construction left it until a block of its field
\* has been returned; a pull makes at most one read, of at most blocksize
\* bytes, from the source of the field it is emitting, and none when it
\* starts a field; only that read moves a source during a pull, and reset()
\* reads nothing
C18_LazyBoundedPulls ==
    /\ [](resets = 0 =>
             \A k \in 1..Len(params) :
                 (IsStream(k) /\ \A j \in 1..Len(chunks) : chunks[j].src # k)
                     => files[params[k].fileobj]
                          = input.files[params[k].fileobj])
    /\ [][/\ Len(reads') <= 1
          /\ \A m \in 1..Len(reads') : BoundedRead(reads'[m], p')
          /\ result'.started # 0 => reads' = <<>>
          /\ resets' # resets => reads' = <<>>
          /\ resets' = resets =>
                \A fid \in 1..Len(files) :
                    IF \E m \in 1..Len(reads') : reads'[m].fileobj = fid
                    THEN files'[fid]
                           = [files[fid] EXCEPT
                                 !.pos = files[fid].pos + reads'[1].got]
                    ELSE files'[fid] = files[fid]
         ]_vars

\* C18 witness: the pull read MaxRead bytes from the source of the first
\* field, and the source of the second field is untouched
C18_Witness ==
    /\ resets = 0 /\ Len(params) = 2 /\ p = 1
    /\ Len(reads) = 1 /\ reads[1].got = MaxRead
    /\ IsStream(1) /\ IsStream(2)
    /\ files[params[2].fileobj] = input.files[params[2].fileobj]
    /\ files[params[2].fileobj].pos < Len(files[params[2].fileobj].data)

\* no field has a body with a line equal to --{boundary}
CollisionFree ==
    \A k \in 1..Len(params) : ~HasLine(Body(k), BoundaryLine)

\* the closing block has been returned after a block of every field, no
\* pull has raised, and the last pull reported end-of-sequence
Terminated ==
    /\ FirstRunDone
    /\ chunks[Len(chunks)].bytes = ClosingMarker
    /\ \A k \in 1..Len(params) : ChunksOf(k) # <<>>
    /\ result.out = "StopIteration"

\* C19: a caller that keeps pulling a list of fields without collision gets
\* the closing block and then end-of-sequence, at least one block of every
\* field before it; a pull moves on by at most one field
C19_Termination ==
    /\ CollisionFree ~> Terminated
    /\ [][\/ i' = i
          \/ i # INone /\ i < Len(params) /\ i' = i + 1
          \/ i = Len(params) /\ i' = INone]_vars

\* C19 witness: end-of-sequence after the closing block of two fields
\* without collision, one of them a stream with data
C19_Witness ==
    /\ CollisionFree /\ Terminated
    /\ Len(params) = 2
    /\ \E k \in 1..2 : IsStream(k) /\ Len(Delivered(k)) > 1

\* C20: a stream field constructed without a size, whatever the position of
\* its source and whether the size came from fstat or from seek and tell,
\* has as filesize the number of body bytes a full iter_encode emits, and
\* get_size is the length of all it emits
C20_ResolvedSize ==
    (Finished /\ ~failed /\ Len(params) = 1 /\ IsStream(1)
        /\ input.args.filesize = NoSize) =>
        /\ get_size(params[1], boundary) = Len(FieldOut(1))
        /\ params[1].filesize
              = Len(FieldOut(1)) - Len(encode_hdr(params[1], boundary)) - 2

====
